---- MODULE Spec2Model ----
(***************************************************************************)
(* Namco GunCon 2 USB light gun driver (src/guncon2.c).                    *)
(*                                                                         *)
(* The model covers the interrupt URB owned by one struct guncon2, its     *)
(* completion handler guncon2_usb_irq, and the lifecycle entry points      *)
(* open/close (called by the input core) and suspend/resume/reset_resume/  *)
(* pre_reset/post_reset (called by the USB core).  The URB is modelled as  *)
(* the USB core treats it: usb_submit_urb refuses an URB that is still     *)
(* queued (-EBUSY) or that is being killed (-EPERM); usb_kill_urb raises   *)
(* urb->reject, unlinks the URB and sleeps until urb->use_count is zero.   *)
(***************************************************************************)
EXTENDS Integers, Sequences, FiniteSets, TLC

(* ---------------------------------------------------------------------- *)
(* Bounds of the model                                                    *)
(* ---------------------------------------------------------------------- *)

\* number of distinct sample reports the device can deliver
NumReports == 3
\* the axis bytes of the decoded sample reports are spread over 0..255 in
\* this many steps
NumAxisSamples == 2
\* largest actual_length the transport can deliver with a report
MaxLen == 7

(* ---------------------------------------------------------------------- *)
(* Program constants                                                      *)
(* ---------------------------------------------------------------------- *)

EPERM == 1
ENOENT == 2
EIO == 5
ENOMEM == 12
EBUSY == 16
ENODEV == 19
EPIPE == 32
ETIME == 62
EPROTO == 71
EOVERFLOW == 75
ECONNRESET == 104
ESHUTDOWN == 108

\* the fixed size of one report
REPORT_LEN == 6

\* output range of the two-device build
X_AXIS_MAX == 1024
Y_AXIS_MAX == 255

GUNCON2_DPAD_LEFT == 15
GUNCON2_DPAD_RIGHT == 13
GUNCON2_DPAD_UP == 12
GUNCON2_DPAD_DOWN == 14
GUNCON2_TRIGGER == 5
GUNCON2_BTN_A == 11
GUNCON2_BTN_B == 10
GUNCON2_BTN_C == 9
GUNCON2_BTN_START == 7
GUNCON2_BTN_SELECT == 6

(* ---------------------------------------------------------------------- *)
(* Inputs                                                                 *)
(* ---------------------------------------------------------------------- *)

\* the two calling contexts of the lifecycle entry points
Threads == {"input", "pm"}

\* completion statuses the host controller can hand to the handler
Statuses == {0, -ETIME, -ECONNRESET, -ENOENT, -ESHUTDOWN, -EPIPE, -EPROTO,
             -EOVERFLOW}

\* outcomes of the transport for a submission it gets to decide
TransportResults == {0, -ENODEV}

\* outcomes of the mode-setting control transfer
ControlResults == {0, -EPIPE}

\* lengths the transport can report for a successful transfer
Lengths == 4..MaxLen

\* byte k (0..5) of sample report i
ReportByte(i, k) == (i * (37 + 50 * k) + 11 * k) % 256

Report(i) == [k \in 0..(REPORT_LEN - 1) |-> ReportByte(i, k)]

Reports == {Report(i) : i \in 1..NumReports}

\* one report buffer
MkReport(b0, b1, b2, b3, b4, b5) ==
    [k \in 0..(REPORT_LEN - 1) |->
        CASE k = 0 -> b0 [] k = 1 -> b1 [] k = 2 -> b2
          [] k = 3 -> b3 [] k = 4 -> b4 [] OTHER -> b5]

\* sample values of the axis bytes 2, 3 and 4
AxisBytes == {(i * 255) \div NumAxisSamples : i \in 0..NumAxisSamples}

\* byte 1 carries trigger, select and start in bits 5..7; the low bits are
\* unused and sampled all clear and all set
ButtonBytes == {32 * k + l : k \in 0..7, l \in {0, 31}}

\* reports decoded by the current build: every byte 0, every combination of
\* the used bits of byte 1, sampled axis bytes
DecodeReports ==
    {MkReport(b0, b1, b2, b3, b4, 0) :
        b0 \in 0..255, b1 \in ButtonBytes,
        b2 \in AxisBytes, b3 \in AxisBytes, b4 \in AxisBytes}

\* samples around the calibration values of the two-device build
XSamples == {0, 79, 80, 81, 143, 144, 400, 734, 735, 65535}
YSamples == {0, 19, 20, 21, 120, 240, 241, 255}

\* reports decoded by the two-device build
TwoDeviceReports ==
    {MkReport(b0, b1, x % 256, x \div 256, y, 0) :
        b0 \in {0, 90, 255}, b1 \in {0, 223, 255},
        x \in XSamples, y \in YSamples}

\* values written to the module parameters
ParamSamples ==
    [calibration_x0 : {0, 80}, calibration_x1 : {80, 81, 734},
     calibration_y0 : {0, 20}, calibration_y1 : {20, 21, 240},
     raw : BOOLEAN, offscreen_reload : BOOLEAN]

\* parameters of the mouse-only build, which has the four bounds only: the
\* samples above and the widest horizontal range
MouseParamSamples ==
    {p \in ParamSamples : ~p.raw /\ ~p.offscreen_reload}
    \cup {[calibration_x0 |-> 0, calibration_x1 |-> 65535,
            calibration_y0 |-> 0, calibration_y1 |-> 240,
            raw |-> FALSE, offscreen_reload |-> FALSE]}

\* the builds of the driver: the current one (src/guncon2.c) and the
\* earlier one that registers a mouse and a joystick and calibrates
Variants == {"guncon2", "two-device", "mouse-only"}

\* module parameters of the two-device build as they are after insmod
DefaultParam ==
    [calibration_x0 |-> 80, calibration_x1 |-> 734,
     calibration_y0 |-> 0, calibration_y1 |-> 240,
     raw |-> FALSE, offscreen_reload |-> FALSE]

(* ---------------------------------------------------------------------- *)
(* State                                                                  *)
(* ---------------------------------------------------------------------- *)

VARIABLES
    pc,                 \* position of each calling context
    call,               \* entry point each calling context entered last
    retval,             \* value last returned to each calling context
    pm_mutex,           \* guncon2->pm_mutex: "none" or the context holding it
    is_open,            \* guncon2->is_open
    users,              \* input core: the device is opened by a user
    ctrl_retval,        \* result of the last usb_control_msg in open
    urb_inflight,       \* submissions of guncon2->urb queued at the controller
    urb_unlinked,       \* the queued urb has been unlinked
    urb_reject,         \* urb->reject
    irq_pc,             \* position of the completion handler
    urb_status,         \* urb->status of the last completion
    urb_actual_length,  \* urb->actual_length of the last completion
    data,               \* urb->transfer_buffer of the last completion
    sink,               \* events forwarded by the last handler invocation
    irq_submits,        \* usb_submit_urb calls of the last handler invocation
    irq_error,          \* result of the handler's usb_submit_urb
    irq_logged,         \* dev_err calls of the last handler invocation
    variant,            \* which build of the driver is bound to the device
    module_param,       \* the module parameters of the calibrating builds
    param_lock,         \* THIS_MODULE's parameter mutex: "none" or its holder
    param_pc,           \* position of a writer of /sys/module/.../parameters
    offscreen           \* the handler's local variable offscreen

vars == <<pc, call, retval, pm_mutex, is_open, users, ctrl_retval, urb_inflight,
          urb_unlinked, urb_reject, irq_pc, urb_status, urb_actual_length,
          data, sink, irq_submits, irq_error, irq_logged, variant,
          module_param, param_lock, param_pc, offscreen>>

lifecycle_vars == <<pc, call, retval, pm_mutex, is_open, users, ctrl_retval>>
param_vars == <<param_lock, param_pc, offscreen>>
config_vars == <<variant, module_param, param_vars>>
irq_vars == <<irq_pc, urb_status, urb_actual_length, data, sink,
              irq_submits, irq_error, irq_logged, config_vars>>
urb_vars == <<urb_inflight, urb_unlinked, urb_reject>>

(* ---------------------------------------------------------------------- *)
(* Report decoding (guncon2_usb_irq, the actual_length == 6 branch)       *)
(* ---------------------------------------------------------------------- *)

Pow2(k) == 2 ^ k

\* buttons & BIT(k), as a truth value
TestBit(n, k) == (n \div Pow2(k)) % 2 = 1

\* input_report_key forwards !!value
Key(code, pressed) == <<"EV_KEY", code, IF pressed THEN 1 ELSE 0>>

Abs(code, value) == <<"EV_ABS", code, value>>

Sync == <<"EV_SYN", "SYN_REPORT", 0>>

\* variant: the two position bytes are read big-endian
decode_x_swapped(d) == (d[2] * 256 + d[3]) % 65536

decode_x(d) == (d[3] * 256 + d[2]) % 65536

decode_y(d) == d[4]

\* variant: the button word is used without the inversion
decode_buttons_noxor(d) == d[0] * 256 + d[1]

decode_buttons(d) == 65535 - (d[0] * 256 + d[1])

\* variant: each direction assigns the hat value instead of adding to it
decode_hat_x_assign(b) ==
    IF TestBit(b, GUNCON2_DPAD_RIGHT) THEN 1
    ELSE IF TestBit(b, GUNCON2_DPAD_LEFT) THEN -1 ELSE 0

decode_hat_x(b) ==
    (IF TestBit(b, GUNCON2_DPAD_LEFT) THEN -1 ELSE 0)
  + (IF TestBit(b, GUNCON2_DPAD_RIGHT) THEN 1 ELSE 0)

decode_hat_y(b) ==
    (IF TestBit(b, GUNCON2_DPAD_UP) THEN -1 ELSE 0)
  + (IF TestBit(b, GUNCON2_DPAD_DOWN) THEN 1 ELSE 0)

\* variant: the report is forwarded without the closing input_sync
guncon2_report_nosync(d) ==
    LET b == decode_buttons(d) IN
    << Abs("ABS_X", decode_x(d)),
       Abs("ABS_Y", decode_y(d)),
       Abs("ABS_HAT0X", decode_hat_x(b)),
       Abs("ABS_HAT0Y", decode_hat_y(b)),
       Key("BTN_LEFT", TestBit(b, GUNCON2_TRIGGER)),
       Key("BTN_A", TestBit(b, GUNCON2_BTN_A)),
       Key("BTN_B", TestBit(b, GUNCON2_BTN_B)),
       Key("BTN_RIGHT", TestBit(b, GUNCON2_BTN_C)),
       Key("BTN_START", TestBit(b, GUNCON2_BTN_START)),
       Key("BTN_SELECT", TestBit(b, GUNCON2_BTN_SELECT)) >>

\* the input_report_* calls of one decoded report, in program order
guncon2_report(d) ==
    LET b == decode_buttons(d) IN
    << Abs("ABS_X", decode_x(d)),
       Abs("ABS_Y", decode_y(d)),
       Abs("ABS_HAT0X", decode_hat_x(b)),
       Abs("ABS_HAT0Y", decode_hat_y(b)),
       Key("BTN_LEFT", TestBit(b, GUNCON2_TRIGGER)),
       Key("BTN_A", TestBit(b, GUNCON2_BTN_A)),
       Key("BTN_B", TestBit(b, GUNCON2_BTN_B)),
       Key("BTN_RIGHT", TestBit(b, GUNCON2_BTN_C)),
       Key("BTN_START", TestBit(b, GUNCON2_BTN_START)),
       Key("BTN_SELECT", TestBit(b, GUNCON2_BTN_SELECT)),
       Sync >>

\* variant: the length test accepts any report of at least 6 bytes
irq_events_atleast(len, d) ==
    IF len >= REPORT_LEN THEN guncon2_report(d) ELSE <<>>

\* what the handler forwards for a successful transfer of len bytes
irq_events(len, d) ==
    IF len = REPORT_LEN THEN guncon2_report(d) ELSE <<>>

(* ---------------------------------------------------------------------- *)
(* Report decoding of the two-device build (src/unnamed/part_001)         *)
(* ---------------------------------------------------------------------- *)

MouseKey(code, pressed) == <<"mouse", "EV_KEY", code, IF pressed THEN 1 ELSE 0>>

MouseAbs(code, value) == <<"mouse", "EV_ABS", code, value>>

JsKey(code, pressed) == <<"js", "EV_KEY", code, IF pressed THEN 1 ELSE 0>>

JsAbs(code, value) == <<"js", "EV_ABS", code, value>>

DevSync(dev) == <<dev, "EV_SYN", "SYN_REPORT", 0>>

\* trigger = !(data[1] & BIT(5))
decode_trigger(d) == ~TestBit(d[1], 5)

\* variant: a sample on a bound counts as off screen
irq_offscreen_exclusive(x, y, p) ==
    \/ x <= p.calibration_x0
    \/ x >= p.calibration_x1
    \/ y <= p.calibration_y0
    \/ y >= p.calibration_y1

\* the off-screen test against the calibration parameters
irq_offscreen(x, y, p) ==
    \/ x < p.calibration_x0
    \/ x > p.calibration_x1
    \/ y < p.calibration_y0
    \/ y > p.calibration_y1

\* the rescaling divides by zero
irq_divide_error(off, p) ==
    /\ ~off
    /\ ~p.raw
    /\ \/ p.calibration_x1 = p.calibration_x0
       \/ p.calibration_y1 = p.calibration_y0

\* integer division of C, truncating toward zero; b is not 0
c_div(a, b) ==
    LET abs(n) == IF n < 0 THEN 0 - n ELSE n
        q == abs(a) \div abs(b)
    IN  IF (a < 0) # (b < 0) THEN 0 - q ELSE q

\* a * (1<<16) - 1 in a 32-bit int for a in 0..65535 (the kernel is built
\* with wrapping signed arithmetic): a shifted into the upper half word,
\* read as a signed value, minus one
int_scale(a) ==
    IF a < 32768 THEN a * 65536 - 1
    ELSE IF a = 32768 THEN 2147483647
    ELSE (a - 65536) * 65536 - 1

\* variant: the truncated product is not divided by the calibrated width
irq_rescale_nodiv(v, min, max, axis_max) ==
    ((v - min) * axis_max) % 65536

\* norm = (ushort) ((v - min) * axis_max) / (max - min), stored in a ushort
irq_rescale(v, min, max, axis_max) ==
    c_div(((v - min) * axis_max) % 65536, max - min) % 65536

\* variant: the reload remapping ignores the screen position
irq_trigger_events_noremap(off, d, p) ==
    IF p.offscreen_reload
    THEN << MouseKey("BTN_LEFT", decode_trigger(d)),
            MouseKey("BTN_RIGHT", FALSE) >>
    ELSE << MouseKey("BTN_LEFT", decode_trigger(d)) >>

\* the trigger and reload keys of the mouse device
irq_trigger_events(off, d, p) ==
    IF p.offscreen_reload
    THEN IF off
         THEN << MouseKey("BTN_LEFT", FALSE),
                 MouseKey("BTN_RIGHT", decode_trigger(d)) >>
         ELSE << MouseKey("BTN_LEFT", decode_trigger(d)),
                 MouseKey("BTN_RIGHT", FALSE) >>
    ELSE << MouseKey("BTN_LEFT", decode_trigger(d)) >>

\* variant: an off-screen sample moves the position to the origin
irq_position_events_zero(off, x, y, p) ==
    IF off THEN << MouseAbs("ABS_X", 0), MouseAbs("ABS_Y", 0) >>
    ELSE IF p.raw
    THEN << MouseAbs("ABS_X", x), MouseAbs("ABS_Y", y) >>
    ELSE << MouseAbs("ABS_X", irq_rescale(x, p.calibration_x0,
                                          p.calibration_x1, X_AXIS_MAX)),
            MouseAbs("ABS_Y", irq_rescale(y, p.calibration_y0,
                                          p.calibration_y1, Y_AXIS_MAX)) >>

\* the position of the mouse device, updated only on screen
irq_position_events(off, x, y, p) ==
    IF off THEN <<>>
    ELSE IF p.raw
    THEN << MouseAbs("ABS_X", x), MouseAbs("ABS_Y", y) >>
    ELSE << MouseAbs("ABS_X", irq_rescale(x, p.calibration_x0,
                                          p.calibration_x1, X_AXIS_MAX)),
            MouseAbs("ABS_Y", irq_rescale(y, p.calibration_y0,
                                          p.calibration_y1, Y_AXIS_MAX)) >>

\* the mouse-only build: AXIS_MAX expands to (1<<16) - 1 without
\* parentheses, so norm = ((v - min) * (1<<16) - 1) / (max - min) in int
irq_rescale_mouse(v, min, max) ==
    c_div(int_scale(v - min), max - min)

\* the position of the mouse-only build: the origin when off screen
irq_position_events_mouse(off, x, y, p) ==
    IF off
    THEN << MouseAbs("ABS_X", 0), MouseAbs("ABS_Y", 0) >>
    ELSE << MouseAbs("ABS_X", irq_rescale_mouse(x, p.calibration_x0,
                                                p.calibration_x1)),
            MouseAbs("ABS_Y", irq_rescale_mouse(y, p.calibration_y0,
                                                p.calibration_y1)) >>

\* d-pad and buttons of the joystick device, then both syncs
irq_js_events(d) ==
    << JsAbs("ABS_HAT0X", (IF ~TestBit(d[0], 7) THEN -1 ELSE 0)
                        + (IF ~TestBit(d[0], 5) THEN 1 ELSE 0)),
       JsAbs("ABS_HAT0Y", (IF ~TestBit(d[0], 4) THEN -1 ELSE 0)
                        + (IF ~TestBit(d[0], 6) THEN 1 ELSE 0)),
       JsKey("BTN_A", ~TestBit(d[0], 3)),
       JsKey("BTN_B", ~TestBit(d[0], 2)),
       JsKey("BTN_C", ~TestBit(d[0], 1)),
       JsKey("BTN_START", ~TestBit(d[1], 7)),
       JsKey("BTN_SELECT", ~TestBit(d[1], 6)),
       DevSync("js"),
       DevSync("mouse") >>

\* the input_report_* calls of one report decoded without a fault
guncon2_report_2dev(d, p) ==
    LET x == decode_x(d)
        y == decode_y(d)
        off == irq_offscreen(x, y, p)
    IN  irq_trigger_events(off, d, p)
        \o irq_position_events(off, x, y, p)
        \o irq_js_events(d)

\* variant: a timeout is handled by the default case
urb_status_switch_timeout(s) ==
    IF s = 0 THEN "success"
    ELSE IF s \in {-ECONNRESET, -ENOENT, -ESHUTDOWN, -EPIPE} THEN "return"
    ELSE "exit"

\* variant: -EPIPE is missing from the terminated cases
urb_status_switch_nopipe(s) ==
    IF s = 0 THEN "success"
    ELSE IF s = -ETIME THEN "return"
    ELSE IF s \in {-ECONNRESET, -ENOENT, -ESHUTDOWN} THEN "return"
    ELSE "exit"

\* variant: the default case returns instead of jumping to exit
urb_status_switch_default(s) ==
    IF s = 0 THEN "success"
    ELSE "return"

\* the switch on urb->status: where the handler continues
urb_status_switch(s) ==
    IF s = 0 THEN "success"
    ELSE IF s = -ETIME THEN "return"
    ELSE IF s \in {-ECONNRESET, -ENOENT, -ESHUTDOWN, -EPIPE} THEN "return"
    ELSE "exit"

(* ---------------------------------------------------------------------- *)
(* The URB as the USB core handles it                                     *)
(* ---------------------------------------------------------------------- *)

\* urb->use_count: one for a queued submission, one for a running handler
urb_use_count == urb_inflight + (IF irq_pc = "idle" THEN 0 ELSE 1)

\* variant: a queued urb is accepted again
usb_submit_urb_active(t) ==
    IF urb_reject > 0 THEN -EPERM
    ELSE t

\* result of usb_submit_urb when the transport would answer t
usb_submit_urb(t) ==
    IF urb_inflight > 0 THEN -EBUSY
    ELSE IF urb_reject > 0 THEN -EPERM
    ELSE t

\* effect of a usb_submit_urb call that returned r
urb_submitted(r) ==
    /\ urb_inflight' = IF r = 0 THEN urb_inflight + 1 ELSE urb_inflight
    /\ UNCHANGED <<urb_unlinked, urb_reject>>

\* usb_kill_urb, first half: block submissions and unlink the queued urb
usb_kill_urb_begin ==
    /\ urb_reject' = urb_reject + 1
    /\ urb_unlinked' = (urb_inflight > 0)
    /\ UNCHANGED urb_inflight

\* variant: the cancellation does not wait (usb_unlink_urb)
usb_kill_urb_nowait == TRUE

\* usb_kill_urb, the condition it sleeps on
usb_kill_urb_drained == urb_use_count = 0

\* usb_kill_urb, second half: woken up, allow submissions again
usb_kill_urb_end ==
    /\ usb_kill_urb_drained
    /\ urb_reject' = urb_reject - 1
    /\ UNCHANGED <<urb_inflight, urb_unlinked>>

(* ---------------------------------------------------------------------- *)
(* Initial state: after guncon2_probe                                     *)
(* ---------------------------------------------------------------------- *)

Init ==
    /\ pc = [t \in Threads |-> "idle"]
    /\ call = [t \in Threads |-> "none"]
    /\ retval = [t \in Threads |-> 0]
    /\ pm_mutex = "none"
    /\ is_open = FALSE
    /\ users = 0
    /\ ctrl_retval = 0
    /\ urb_inflight = 0
    /\ urb_unlinked = FALSE
    /\ urb_reject = 0
    /\ irq_pc = "idle"
    /\ urb_status = 0
    /\ urb_actual_length = 0
    /\ data = Report(1)
    /\ sink = <<>>
    /\ irq_submits = 0
    /\ irq_error = 0
    /\ irq_logged = 0
    /\ variant = "guncon2"
    /\ module_param = DefaultParam
    /\ param_lock = "none"
    /\ param_pc = "idle"
    /\ offscreen = FALSE

(* ---------------------------------------------------------------------- *)
(* Completion: the controller gives the urb back and calls the handler    *)
(* ---------------------------------------------------------------------- *)

\* usb_hcd_giveback_urb: the queued urb completes with status s; an
\* unlinked urb completes with -ENOENT.  Handlers of one urb never overlap.
\* The handler reads actual_length only for status 0, so the length of a
\* failed transfer is recorded as 0.
urb_complete(s, len, d) ==
    /\ urb_inflight > 0
    /\ irq_pc = "idle"
    /\ urb_inflight' = urb_inflight - 1
    /\ urb_unlinked' = FALSE
    /\ urb_status' = IF urb_unlinked THEN -ENOENT ELSE s
    /\ urb_actual_length' = IF urb_unlinked \/ s # 0 THEN 0 ELSE len
    /\ data' = d
    /\ irq_pc' = "switch"
    /\ sink' = <<>>
    /\ irq_submits' = 0
    /\ irq_error' = 0
    /\ irq_logged' = 0
    /\ UNCHANGED urb_reject
    /\ UNCHANGED config_vars
    /\ UNCHANGED lifecycle_vars

\* variant: the handler decodes only while no lifecycle call holds pm_mutex
guncon2_usb_irq_switch_guarded ==
    /\ variant = "guncon2"
    /\ irq_pc = "switch"
    /\ LET next == urb_status_switch(urb_status) IN
        IF next = "success"
        THEN /\ irq_pc' = "exit"
             /\ sink' = IF pm_mutex = "none"
                        THEN sink \o irq_events(urb_actual_length, data)
                        ELSE sink
        ELSE IF next = "return"
        THEN /\ irq_pc' = "idle"
             /\ UNCHANGED sink
        ELSE /\ irq_pc' = "exit"
             /\ UNCHANGED sink
    /\ UNCHANGED <<urb_status, urb_actual_length, data, irq_submits,
                   irq_error, irq_logged>>
    /\ UNCHANGED config_vars
    /\ UNCHANGED urb_vars
    /\ UNCHANGED lifecycle_vars

\* guncon2_usb_irq, from entry to the exit label: the switch on urb->status
\* and the decode of a report of exactly 6 bytes
guncon2_usb_irq_switch ==
    /\ variant = "guncon2"
    /\ irq_pc = "switch"
    /\ LET next == urb_status_switch(urb_status) IN
        IF next = "success"
        THEN /\ irq_pc' = "exit"
             /\ sink' = sink \o irq_events(urb_actual_length, data)
        ELSE IF next = "return"
        THEN /\ irq_pc' = "idle"
             /\ UNCHANGED sink
        ELSE /\ irq_pc' = "exit"
             /\ UNCHANGED sink
    /\ UNCHANGED <<urb_status, urb_actual_length, data, irq_submits,
                   irq_error, irq_logged>>
    /\ UNCHANGED config_vars
    /\ UNCHANGED urb_vars
    /\ UNCHANGED lifecycle_vars

\* variant: every failed resubmission is reported, -EPERM included
guncon2_usb_irq_exit_logall(t) ==
    /\ irq_pc = "exit"
    /\ LET error == usb_submit_urb(t) IN
        /\ urb_submitted(error)
        /\ irq_error' = error
        /\ irq_submits' = irq_submits + 1
        /\ irq_logged' = IF error # 0 THEN irq_logged + 1 ELSE irq_logged
    /\ irq_pc' = "idle"
    /\ UNCHANGED <<urb_status, urb_actual_length, data, sink>>
    /\ UNCHANGED config_vars
    /\ UNCHANGED lifecycle_vars

\* variant: the handler returns at the exit label without resubmitting
guncon2_usb_irq_exit_nosubmit(t) ==
    /\ irq_pc = "exit"
    /\ irq_pc' = "idle"
    /\ UNCHANGED <<urb_status, urb_actual_length, data, sink, irq_submits,
                   irq_error, irq_logged>>
    /\ UNCHANGED config_vars
    /\ UNCHANGED urb_vars
    /\ UNCHANGED lifecycle_vars

\* guncon2_usb_irq, the exit label: resubmit, report a failure other than
\* -EPERM, return
guncon2_usb_irq_exit(t) ==
    /\ irq_pc = "exit"
    /\ LET error == usb_submit_urb(t) IN
        /\ urb_submitted(error)
        /\ irq_error' = error
        /\ irq_submits' = irq_submits + 1
        /\ irq_logged' = IF error # 0 /\ error # -EPERM
                         THEN irq_logged + 1 ELSE irq_logged
    /\ irq_pc' = "idle"
    /\ UNCHANGED <<urb_status, urb_actual_length, data, sink>>
    /\ UNCHANGED config_vars
    /\ UNCHANGED lifecycle_vars

\* guncon2_usb_irq of the two-device build, from entry to the call of
\* kernel_param_lock: the switch on urb->status and the length test
guncon2_usb_irq_switch_2dev ==
    /\ variant = "two-device"
    /\ irq_pc = "switch"
    /\ LET next == urb_status_switch(urb_status) IN
        IF next = "success"
        THEN irq_pc' = IF urb_actual_length = REPORT_LEN
                       THEN "param_lock" ELSE "exit"
        ELSE IF next = "return"
        THEN irq_pc' = "idle"
        ELSE irq_pc' = "exit"
    /\ UNCHANGED <<urb_status, urb_actual_length, data, sink, irq_submits,
                   irq_error, irq_logged>>
    /\ UNCHANGED config_vars
    /\ UNCHANGED urb_vars
    /\ UNCHANGED lifecycle_vars

\* variant: the handler reads the parameters without kernel_param_lock
guncon2_usb_irq_offscreen_nolock ==
    /\ variant = "two-device"
    /\ irq_pc = "param_lock"
    /\ offscreen' = irq_offscreen(decode_x(data), decode_y(data), module_param)
    /\ sink' = sink \o irq_trigger_events(offscreen', data, module_param)
    /\ irq_pc' = "position"
    /\ UNCHANGED <<urb_status, urb_actual_length, data, irq_submits,
                   irq_error, irq_logged>>
    /\ UNCHANGED <<variant, module_param, param_lock, param_pc>>
    /\ UNCHANGED urb_vars
    /\ UNCHANGED lifecycle_vars

\* kernel_param_lock returns once the parameter mutex is free; then the
\* off-screen test and the trigger and reload keys
guncon2_usb_irq_offscreen ==
    /\ variant = "two-device"
    /\ irq_pc = "param_lock"
    /\ param_lock = "none"
    /\ param_lock' = "irq"
    /\ offscreen' = irq_offscreen(decode_x(data), decode_y(data), module_param)
    /\ sink' = sink \o irq_trigger_events(offscreen', data, module_param)
    /\ irq_pc' = "position"
    /\ UNCHANGED <<urb_status, urb_actual_length, data, irq_submits,
                   irq_error, irq_logged>>
    /\ UNCHANGED <<variant, module_param, param_pc>>
    /\ UNCHANGED urb_vars
    /\ UNCHANGED lifecycle_vars

\* the position update.  A division by zero stops the handler here, with
\* the parameter mutex still held.
guncon2_usb_irq_position ==
    /\ variant = "two-device"
    /\ irq_pc = "position"
    /\ IF irq_divide_error(offscreen, module_param)
       THEN /\ irq_pc' = "fault"
            /\ UNCHANGED sink
       ELSE /\ irq_pc' = "param_unlock"
            /\ sink' = sink \o irq_position_events(offscreen, decode_x(data),
                                                   decode_y(data), module_param)
    /\ UNCHANGED <<urb_status, urb_actual_length, data, irq_submits,
                   irq_error, irq_logged>>
    /\ UNCHANGED config_vars
    /\ UNCHANGED urb_vars
    /\ UNCHANGED lifecycle_vars

\* kernel_param_unlock, then the d-pad, the buttons and both input_sync
guncon2_usb_irq_param_unlock ==
    /\ variant = "two-device"
    /\ irq_pc = "param_unlock"
    /\ param_lock' = "none"
    /\ sink' = sink \o irq_js_events(data)
    /\ irq_pc' = "exit"
    /\ UNCHANGED <<urb_status, urb_actual_length, data, irq_submits,
                   irq_error, irq_logged>>
    /\ UNCHANGED <<variant, module_param, param_pc, offscreen>>
    /\ UNCHANGED urb_vars
    /\ UNCHANGED lifecycle_vars

\* guncon2_usb_irq of the mouse-only build, from entry to the call of
\* kernel_param_lock
guncon2_usb_irq_switch_mouse ==
    /\ variant = "mouse-only"
    /\ irq_pc = "switch"
    /\ LET next == urb_status_switch(urb_status) IN
        IF next = "success"
        THEN irq_pc' = IF urb_actual_length = REPORT_LEN
                       THEN "param_lock" ELSE "exit"
        ELSE IF next = "return"
        THEN irq_pc' = "idle"
        ELSE irq_pc' = "exit"
    /\ UNCHANGED <<urb_status, urb_actual_length, data, sink, irq_submits,
                   irq_error, irq_logged>>
    /\ UNCHANGED config_vars
    /\ UNCHANGED urb_vars
    /\ UNCHANGED lifecycle_vars

\* kernel_param_lock, the off-screen test and the trigger key
guncon2_usb_irq_offscreen_mouse ==
    /\ variant = "mouse-only"
    /\ irq_pc = "param_lock"
    /\ param_lock = "none"
    /\ param_lock' = "irq"
    /\ offscreen' = irq_offscreen(decode_x(data), decode_y(data), module_param)
    /\ sink' = sink \o << MouseKey("BTN_LEFT", decode_trigger(data)) >>
    /\ irq_pc' = "position"
    /\ UNCHANGED <<urb_status, urb_actual_length, data, irq_submits,
                   irq_error, irq_logged>>
    /\ UNCHANGED <<variant, module_param, param_pc>>
    /\ UNCHANGED urb_vars
    /\ UNCHANGED lifecycle_vars

\* the position update; a division by zero stops the handler here
guncon2_usb_irq_position_mouse ==
    /\ variant = "mouse-only"
    /\ irq_pc = "position"
    /\ IF /\ ~offscreen
          /\ \/ module_param.calibration_x1 = module_param.calibration_x0
             \/ module_param.calibration_y1 = module_param.calibration_y0
       THEN /\ irq_pc' = "fault"
            /\ UNCHANGED sink
       ELSE /\ irq_pc' = "param_unlock"
            /\ sink' = sink \o irq_position_events_mouse(
                                   offscreen, decode_x(data), decode_y(data),
                                   module_param)
    /\ UNCHANGED <<urb_status, urb_actual_length, data, irq_submits,
                   irq_error, irq_logged>>
    /\ UNCHANGED config_vars
    /\ UNCHANGED urb_vars
    /\ UNCHANGED lifecycle_vars

\* kernel_param_unlock and input_sync
guncon2_usb_irq_param_unlock_mouse ==
    /\ variant = "mouse-only"
    /\ irq_pc = "param_unlock"
    /\ param_lock' = "none"
    /\ sink' = sink \o << DevSync("mouse") >>
    /\ irq_pc' = "exit"
    /\ UNCHANGED <<urb_status, urb_actual_length, data, irq_submits,
                   irq_error, irq_logged>>
    /\ UNCHANGED <<variant, module_param, param_pc, offscreen>>
    /\ UNCHANGED urb_vars
    /\ UNCHANGED lifecycle_vars

(* ---------------------------------------------------------------------- *)
(* A write to a module parameter through sysfs (mode 0644): the kernel    *)
(* takes the parameter mutex of the module around the store               *)
(* ---------------------------------------------------------------------- *)

ParamFields == {"calibration_x0", "calibration_x1", "calibration_y0",
                "calibration_y1", "raw", "offscreen_reload"}

ParamValues(f) == {p[f] : p \in ParamSamples}

\* a writer enters the store and calls kernel_param_lock
param_store ==
    /\ param_pc = "idle"
    /\ param_pc' = "lock"
    /\ UNCHANGED <<irq_pc, urb_status, urb_actual_length, data, sink,
                   irq_submits, irq_error, irq_logged>>
    /\ UNCHANGED <<variant, module_param, param_lock, offscreen>>
    /\ UNCHANGED urb_vars
    /\ UNCHANGED lifecycle_vars

\* kernel_param_lock returns once the parameter mutex is free
param_store_lock ==
    /\ param_pc = "lock"
    /\ param_lock = "none"
    /\ param_lock' = "writer"
    /\ param_pc' = "set"
    /\ UNCHANGED <<irq_pc, urb_status, urb_actual_length, data, sink,
                   irq_submits, irq_error, irq_logged>>
    /\ UNCHANGED <<variant, module_param, offscreen>>
    /\ UNCHANGED urb_vars
    /\ UNCHANGED lifecycle_vars

\* the parameter is set and the mutex released
param_store_set(f, v) ==
    /\ param_pc = "set"
    /\ module_param' = [module_param EXCEPT ![f] = v]
    /\ param_lock' = "none"
    /\ param_pc' = "idle"
    /\ UNCHANGED <<irq_pc, urb_status, urb_actual_length, data, sink,
                   irq_submits, irq_error, irq_logged>>
    /\ UNCHANGED <<variant, offscreen>>
    /\ UNCHANGED urb_vars
    /\ UNCHANGED lifecycle_vars

(* ---------------------------------------------------------------------- *)
(* open and close, called by the input core                               *)
(* ---------------------------------------------------------------------- *)

\* a calling context moves to position p
Goto(t, p) == pc' = [pc EXCEPT ![t] = p]

\* a calling context returns r to its caller
Return(t, r) ==
    /\ pc' = [pc EXCEPT ![t] = "idle"]
    /\ retval' = [retval EXCEPT ![t] = r]

\* the input core calls open for the first user of the device
guncon2_open_lock ==
    /\ pc["input"] = "idle"
    /\ users = 0
    /\ pm_mutex = "none"
    /\ pm_mutex' = "input"
    /\ Goto("input", "open_alloc")
    /\ call' = [call EXCEPT !["input"] = "open"]
    /\ UNCHANGED <<retval, is_open, users, ctrl_retval>>
    /\ UNCHANGED urb_vars
    /\ UNCHANGED irq_vars

\* variant: a failed control message ends open with its error
guncon2_open_alloc_fatal(gmode, c) ==
    /\ pc["input"] = "open_alloc"
    /\ IF ~gmode
       THEN /\ Return("input", -ENOMEM)
            /\ UNCHANGED <<ctrl_retval, pm_mutex>>
       ELSE IF c # 0
       THEN /\ Return("input", c)
            /\ ctrl_retval' = c
            /\ pm_mutex' = "none"
       ELSE /\ Goto("input", "open_submit")
            /\ ctrl_retval' = c
            /\ UNCHANGED <<retval, pm_mutex>>
    /\ UNCHANGED <<call, is_open, users>>
    /\ UNCHANGED urb_vars
    /\ UNCHANGED irq_vars

\* kzalloc of the mode buffer and the mode-setting control message, whose
\* result is ignored
guncon2_open_alloc(gmode, c) ==
    /\ pc["input"] = "open_alloc"
    /\ IF ~gmode
       THEN /\ Return("input", -ENOMEM)
            /\ UNCHANGED ctrl_retval
       ELSE /\ Goto("input", "open_submit")
            /\ ctrl_retval' = c
            /\ UNCHANGED retval
    /\ UNCHANGED <<call, pm_mutex, is_open, users>>
    /\ UNCHANGED urb_vars
    /\ UNCHANGED irq_vars

\* variant: is_open is set before the result of the submission is tested
guncon2_open_submit_early(t) ==
    /\ pc["input"] = "open_submit"
    /\ LET r == usb_submit_urb(t) IN
        /\ urb_submitted(r)
        /\ is_open' = TRUE
        /\ Return("input", IF r # 0 THEN -EIO ELSE 0)
        /\ users' = IF r # 0 THEN 0 ELSE 1
    /\ pm_mutex' = "none"
    /\ UNCHANGED <<call, ctrl_retval>>
    /\ UNCHANGED irq_vars

\* variant: an accepted submission does not mark the session open
guncon2_open_submit_unmarked(t) ==
    /\ pc["input"] = "open_submit"
    /\ LET r == usb_submit_urb(t) IN
        /\ urb_submitted(r)
        /\ Return("input", IF r # 0 THEN -EIO ELSE 0)
        /\ users' = IF r # 0 THEN 0 ELSE 1
    /\ pm_mutex' = "none"
    /\ UNCHANGED <<call, is_open, ctrl_retval>>
    /\ UNCHANGED irq_vars

\* usb_submit_urb, is_open, the out label
guncon2_open_submit(t) ==
    /\ pc["input"] = "open_submit"
    /\ LET r == usb_submit_urb(t) IN
        /\ urb_submitted(r)
        /\ is_open' = IF r # 0 THEN is_open ELSE TRUE
        /\ Return("input", IF r # 0 THEN -EIO ELSE 0)
        /\ users' = IF r # 0 THEN 0 ELSE 1
    /\ pm_mutex' = "none"
    /\ UNCHANGED <<call, ctrl_retval>>
    /\ UNCHANGED irq_vars

\* the input core calls close when the last user goes away; close is also
\* exercised on a session that no user holds
guncon2_close_lock ==
    /\ pc["input"] = "idle"
    /\ pm_mutex = "none"
    /\ pm_mutex' = "input"
    /\ Goto("input", "close_kill")
    /\ call' = [call EXCEPT !["input"] = "close"]
    /\ UNCHANGED <<retval, is_open, users, ctrl_retval>>
    /\ UNCHANGED urb_vars
    /\ UNCHANGED irq_vars

guncon2_close_kill ==
    /\ pc["input"] = "close_kill"
    /\ usb_kill_urb_begin
    /\ Goto("input", "close_wait")
    /\ UNCHANGED <<call, retval, pm_mutex, is_open, users, ctrl_retval>>
    /\ UNCHANGED irq_vars

\* variant: close leaves is_open as it is
guncon2_close_done_keeps ==
    /\ pc["input"] = "close_wait"
    /\ usb_kill_urb_end
    /\ pm_mutex' = "none"
    /\ users' = 0
    /\ Return("input", 0)
    /\ UNCHANGED <<call, is_open, ctrl_retval>>
    /\ UNCHANGED irq_vars

\* variant: close cancels without waiting for the urb to drain
guncon2_close_done_nowait ==
    /\ pc["input"] = "close_wait"
    /\ urb_reject' = urb_reject - 1
    /\ UNCHANGED <<urb_inflight, urb_unlinked>>
    /\ is_open' = FALSE
    /\ pm_mutex' = "none"
    /\ users' = 0
    /\ Return("input", 0)
    /\ UNCHANGED <<call, ctrl_retval>>
    /\ UNCHANGED irq_vars

guncon2_close_done ==
    /\ pc["input"] = "close_wait"
    /\ usb_kill_urb_end
    /\ is_open' = FALSE
    /\ pm_mutex' = "none"
    /\ users' = 0
    /\ Return("input", 0)
    /\ UNCHANGED <<call, ctrl_retval>>
    /\ UNCHANGED irq_vars

(* ---------------------------------------------------------------------- *)
(* suspend, resume, reset_resume, pre_reset, post_reset (USB core)        *)
(* ---------------------------------------------------------------------- *)

\* variant: suspend enters without taking pm_mutex
guncon2_suspend_lock_nolock ==
    /\ pc["pm"] = "idle"
    /\ pm_mutex' = "pm"
    /\ Goto("pm", "suspend_check")
    /\ call' = [call EXCEPT !["pm"] = "suspend"]
    /\ UNCHANGED <<retval, is_open, users, ctrl_retval>>
    /\ UNCHANGED urb_vars
    /\ UNCHANGED irq_vars

guncon2_suspend_lock ==
    /\ pc["pm"] = "idle"
    /\ pm_mutex = "none"
    /\ pm_mutex' = "pm"
    /\ Goto("pm", "suspend_check")
    /\ call' = [call EXCEPT !["pm"] = "suspend"]
    /\ UNCHANGED <<retval, is_open, users, ctrl_retval>>
    /\ UNCHANGED urb_vars
    /\ UNCHANGED irq_vars

guncon2_suspend_check ==
    /\ pc["pm"] = "suspend_check"
    /\ IF is_open
       THEN /\ usb_kill_urb_begin
            /\ Goto("pm", "suspend_wait")
            /\ UNCHANGED <<retval, pm_mutex>>
       ELSE /\ pm_mutex' = "none"
            /\ pc' = [pc EXCEPT !["pm"] = "suspended"]
            /\ retval' = [retval EXCEPT !["pm"] = 0]
            /\ UNCHANGED urb_vars
    /\ UNCHANGED <<call, is_open, users, ctrl_retval>>
    /\ UNCHANGED irq_vars

\* variant: suspend marks the session closed like close does
guncon2_suspend_done_clears ==
    /\ pc["pm"] = "suspend_wait"
    /\ usb_kill_urb_end
    /\ is_open' = FALSE
    /\ pm_mutex' = "none"
    /\ pc' = [pc EXCEPT !["pm"] = "suspended"]
    /\ retval' = [retval EXCEPT !["pm"] = 0]
    /\ UNCHANGED <<call, users, ctrl_retval>>
    /\ UNCHANGED irq_vars

guncon2_suspend_done ==
    /\ pc["pm"] = "suspend_wait"
    /\ usb_kill_urb_end
    /\ pm_mutex' = "none"
    /\ pc' = [pc EXCEPT !["pm"] = "suspended"]
    /\ retval' = [retval EXCEPT !["pm"] = 0]
    /\ UNCHANGED <<call, is_open, users, ctrl_retval>>
    /\ UNCHANGED irq_vars

\* the USB core resumes a suspended interface
guncon2_resume_lock ==
    /\ pc["pm"] = "suspended"
    /\ pm_mutex = "none"
    /\ pm_mutex' = "pm"
    /\ Goto("pm", "resume_submit")
    /\ call' = [call EXCEPT !["pm"] = "resume"]
    /\ UNCHANGED <<retval, is_open, users, ctrl_retval>>
    /\ UNCHANGED urb_vars
    /\ UNCHANGED irq_vars

\* reset_resume is a call of guncon2_resume
guncon2_reset_resume_lock ==
    /\ pc["pm"] = "suspended"
    /\ pm_mutex = "none"
    /\ pm_mutex' = "pm"
    /\ Goto("pm", "resume_submit")
    /\ call' = [call EXCEPT !["pm"] = "reset_resume"]
    /\ UNCHANGED <<retval, is_open, users, ctrl_retval>>
    /\ UNCHANGED urb_vars
    /\ UNCHANGED irq_vars

\* variant: the failing path returns before mutex_unlock
guncon2_resume_submit_leak(t) ==
    /\ pc["pm"] = "resume_submit"
    /\ IF is_open
       THEN LET r == usb_submit_urb(t) IN
            /\ urb_submitted(r)
            /\ Return("pm", IF r < 0 THEN -EIO ELSE 0)
            /\ pm_mutex' = IF r < 0 THEN pm_mutex ELSE "none"
       ELSE /\ Return("pm", 0)
            /\ pm_mutex' = "none"
            /\ UNCHANGED urb_vars
    /\ UNCHANGED <<call, is_open, users, ctrl_retval>>
    /\ UNCHANGED irq_vars

\* variant: a failed resume marks the session closed
guncon2_resume_submit_clears(t) ==
    /\ pc["pm"] = "resume_submit"
    /\ IF is_open
       THEN LET r == usb_submit_urb(t) IN
            /\ urb_submitted(r)
            /\ Return("pm", IF r < 0 THEN -EIO ELSE 0)
            /\ is_open' = (r >= 0)
       ELSE /\ Return("pm", 0)
            /\ UNCHANGED is_open
            /\ UNCHANGED urb_vars
    /\ pm_mutex' = "none"
    /\ UNCHANGED <<call, users, ctrl_retval>>
    /\ UNCHANGED irq_vars

guncon2_resume_submit(t) ==
    /\ pc["pm"] = "resume_submit"
    /\ IF is_open
       THEN LET r == usb_submit_urb(t) IN
            /\ urb_submitted(r)
            /\ Return("pm", IF r < 0 THEN -EIO ELSE 0)
       ELSE /\ Return("pm", 0)
            /\ UNCHANGED urb_vars
    /\ pm_mutex' = "none"
    /\ UNCHANGED <<call, is_open, users, ctrl_retval>>
    /\ UNCHANGED irq_vars

guncon2_pre_reset_lock ==
    /\ pc["pm"] = "idle"
    /\ pm_mutex = "none"
    /\ pm_mutex' = "pm"
    /\ Goto("pm", "pre_reset_kill")
    /\ call' = [call EXCEPT !["pm"] = "pre_reset"]
    /\ UNCHANGED <<retval, is_open, users, ctrl_retval>>
    /\ UNCHANGED urb_vars
    /\ UNCHANGED irq_vars

guncon2_pre_reset_kill ==
    /\ pc["pm"] = "pre_reset_kill"
    /\ usb_kill_urb_begin
    /\ Goto("pm", "pre_reset_wait")
    /\ UNCHANGED <<call, retval, pm_mutex, is_open, users, ctrl_retval>>
    /\ UNCHANGED irq_vars

\* variant: pre_reset unlocks pm_mutex before it returns
guncon2_pre_reset_done_unlock ==
    /\ pc["pm"] = "pre_reset_wait"
    /\ usb_kill_urb_end
    /\ pm_mutex' = "none"
    /\ pc' = [pc EXCEPT !["pm"] = "reset_held"]
    /\ retval' = [retval EXCEPT !["pm"] = 0]
    /\ UNCHANGED <<call, is_open, users, ctrl_retval>>
    /\ UNCHANGED irq_vars

\* pre_reset returns with pm_mutex held
guncon2_pre_reset_done ==
    /\ pc["pm"] = "pre_reset_wait"
    /\ usb_kill_urb_end
    /\ pc' = [pc EXCEPT !["pm"] = "reset_held"]
    /\ retval' = [retval EXCEPT !["pm"] = 0]
    /\ UNCHANGED <<call, pm_mutex, is_open, users, ctrl_retval>>
    /\ UNCHANGED irq_vars

\* variant: the failing path returns before mutex_unlock
guncon2_post_reset_leak(t) ==
    /\ pc["pm"] = "reset_held"
    /\ IF is_open
       THEN LET r == usb_submit_urb(t) IN
            /\ urb_submitted(r)
            /\ Return("pm", IF r < 0 THEN -EIO ELSE 0)
            /\ pm_mutex' = IF r < 0 THEN pm_mutex ELSE "none"
       ELSE /\ Return("pm", 0)
            /\ pm_mutex' = "none"
            /\ UNCHANGED urb_vars
    /\ call' = [call EXCEPT !["pm"] = "post_reset"]
    /\ UNCHANGED <<is_open, users, ctrl_retval>>
    /\ UNCHANGED irq_vars

\* the USB core calls post_reset after the reset that pre_reset announced
guncon2_post_reset(t) ==
    /\ pc["pm"] = "reset_held"
    /\ IF is_open
       THEN LET r == usb_submit_urb(t) IN
            /\ urb_submitted(r)
            /\ Return("pm", IF r < 0 THEN -EIO ELSE 0)
       ELSE /\ Return("pm", 0)
            /\ UNCHANGED urb_vars
    /\ pm_mutex' = "none"
    /\ call' = [call EXCEPT !["pm"] = "post_reset"]
    /\ UNCHANGED <<is_open, users, ctrl_retval>>
    /\ UNCHANGED irq_vars

(* ---------------------------------------------------------------------- *)
(* Specification                                                          *)
(* ---------------------------------------------------------------------- *)

Next ==
    \/ \E s \in Statuses, len \in Lengths, d \in Reports : urb_complete(s, len, d)
    \/ guncon2_usb_irq_switch
    \/ \E t \in TransportResults : guncon2_usb_irq_exit(t)
    \/ guncon2_open_lock
    \/ \E gmode \in BOOLEAN, c \in ControlResults : guncon2_open_alloc(gmode, c)
    \/ \E t \in TransportResults : guncon2_open_submit(t)
    \/ guncon2_close_lock
    \/ guncon2_close_kill
    \/ guncon2_close_done
    \/ guncon2_suspend_lock
    \/ guncon2_suspend_check
    \/ guncon2_suspend_done
    \/ guncon2_resume_lock
    \/ guncon2_reset_resume_lock
    \/ \E t \in TransportResults : guncon2_resume_submit(t)
    \/ guncon2_pre_reset_lock
    \/ guncon2_pre_reset_kill
    \/ guncon2_pre_reset_done
    \/ \E t \in TransportResults : guncon2_post_reset(t)

Spec == Init /\ [][Next]_vars

\* the completion handler runs in interrupt context: once called it runs to
\* its return whatever the lifecycle calls do
SpecLive ==
    /\ Spec
    /\ WF_vars(guncon2_usb_irq_switch)
    /\ WF_vars(\E t \in TransportResults : guncon2_usb_irq_exit(t))

(* ---------------------------------------------------------------------- *)
(* Decoding alone: an open session whose read has just completed with     *)
(* status 0 and 6 bytes, for each build, report and parameter setting     *)
(* ---------------------------------------------------------------------- *)

InitDecode ==
    /\ pc = [t \in Threads |-> "idle"]
    /\ call = [t \in Threads |-> IF t = "input" THEN "open" ELSE "none"]
    /\ retval = [t \in Threads |-> 0]
    /\ pm_mutex = "none"
    /\ is_open = TRUE
    /\ users = 1
    /\ ctrl_retval = 0
    /\ urb_inflight = 0
    /\ urb_unlinked = FALSE
    /\ urb_reject = 0
    /\ irq_pc = "switch"
    /\ urb_status = 0
    /\ urb_actual_length = REPORT_LEN
    /\ sink = <<>>
    /\ irq_submits = 0
    /\ irq_error = 0
    /\ irq_logged = 0
    /\ param_lock = "none"
    /\ param_pc = "idle"
    /\ offscreen = FALSE
    /\ variant \in Variants
    /\ IF variant = "guncon2"
       THEN /\ data \in DecodeReports
            /\ module_param = DefaultParam
       ELSE /\ data \in TwoDeviceReports
            /\ module_param \in IF variant = "mouse-only"
                                 THEN MouseParamSamples ELSE ParamSamples

NextDecode ==
    \/ guncon2_usb_irq_switch
    \/ guncon2_usb_irq_switch_2dev
    \/ guncon2_usb_irq_offscreen
    \/ guncon2_usb_irq_position
    \/ guncon2_usb_irq_param_unlock
    \/ guncon2_usb_irq_switch_mouse
    \/ guncon2_usb_irq_offscreen_mouse
    \/ guncon2_usb_irq_position_mouse
    \/ guncon2_usb_irq_param_unlock_mouse

SpecDecode == InitDecode /\ [][NextDecode]_vars

(* ---------------------------------------------------------------------- *)
(* The two-device handler against writers of the module parameters: an    *)
(* open session whose read has just completed with status 0 and 6 bytes   *)
(* ---------------------------------------------------------------------- *)

\* reports with the sample on, inside and beyond the bounds
ParamReports ==
    {MkReport(255, 223, x % 256, x \div 256, y, 0) :
        x \in {80, 400, 735}, y \in {20, 120}}

InitParam ==
    /\ pc = [t \in Threads |-> "idle"]
    /\ call = [t \in Threads |-> IF t = "input" THEN "open" ELSE "none"]
    /\ retval = [t \in Threads |-> 0]
    /\ pm_mutex = "none"
    /\ is_open = TRUE
    /\ users = 1
    /\ ctrl_retval = 0
    /\ urb_inflight = 0
    /\ urb_unlinked = FALSE
    /\ urb_reject = 0
    /\ irq_pc = "switch"
    /\ urb_status = 0
    /\ urb_actual_length = REPORT_LEN
    /\ sink = <<>>
    /\ irq_submits = 0
    /\ irq_error = 0
    /\ irq_logged = 0
    /\ param_lock = "none"
    /\ param_pc = "idle"
    /\ offscreen = FALSE
    /\ variant = "two-device"
    /\ data \in ParamReports
    /\ module_param \in ParamSamples

NextParam ==
    \/ guncon2_usb_irq_switch_2dev
    \/ guncon2_usb_irq_offscreen
    \/ guncon2_usb_irq_position
    \/ guncon2_usb_irq_param_unlock
    \/ param_store
    \/ param_store_lock
    \/ \E f \in ParamFields : \E v \in ParamValues(f) : param_store_set(f, v)

SpecParam == InitParam /\ [][NextParam]_vars

TypeOK ==
    /\ pc \in [Threads -> {"idle", "open_alloc", "open_submit", "close_kill",
                           "close_wait", "suspend_check", "suspend_wait",
                           "suspended", "resume_submit", "pre_reset_kill",
                           "pre_reset_wait", "reset_held"}]
    /\ pm_mutex \in {"none", "input", "pm"}
    /\ is_open \in BOOLEAN
    /\ users \in 0..1
    /\ urb_inflight \in 0..1
    /\ urb_reject \in 0..1
    /\ irq_pc \in {"idle", "switch", "param_lock", "position", "param_unlock",
                  "exit", "fault"}
    /\ param_lock \in {"none", "irq", "writer"}
    /\ param_pc \in {"idle", "lock", "set"}
    /\ offscreen \in BOOLEAN
    /\ urb_status \in Statuses
    /\ data \in Reports

(* ---------------------------------------------------------------------- *)
(* Vocabulary of the properties                                           *)
(* ---------------------------------------------------------------------- *)

TerminalStatuses == {-ECONNRESET, -ENOENT, -ESHUTDOWN, -EPIPE}

\* no read is queued and no handler is pending or running
Quiescent == urb_inflight = 0 /\ irq_pc = "idle"

\* the step is the usb_submit_urb of open, resume/reset_resume or post_reset
ArmStep ==
    \/ pc["input"] = "open_submit" /\ pc'["input"] # "open_submit"
    \/ pc["pm"] = "resume_submit" /\ pc'["pm"] # "resume_submit"
    \/ pc["pm"] = "reset_held" /\ pc'["pm"] # "reset_held"

\* the step is the return of the usb_kill_urb of close, suspend or pre_reset
KillReturns ==
    \/ pc["input"] = "close_wait" /\ pc'["input"] # "close_wait"
    \/ pc["pm"] = "suspend_wait" /\ pc'["pm"] # "suspend_wait"
    \/ pc["pm"] = "pre_reset_wait" /\ pc'["pm"] # "pre_reset_wait"

\* the step is the handler leaving position p
IrqLeaves(p) == irq_pc = p /\ irq_pc' # p

(* ---------------------------------------------------------------------- *)
(* Properties                                                             *)
(* ---------------------------------------------------------------------- *)

\* C1: in every reachable state at most one read of the session is
\* outstanding, that is submitted and not yet given back by the controller.
C1_AtMostOneOutstanding == urb_inflight <= 1

\* C1 witness: a read is outstanding and the handler's own resubmission was
\* refused because a lifecycle call had armed the urb in the meantime.
C1_Witness == urb_inflight = 1 /\ irq_pc = "idle" /\ irq_error = -EBUSY

\* C2: when the usb_kill_urb of close, suspend or pre_reset returns, no read
\* is queued and no handler runs, and from such a state a read gets in flight
\* only by the submission of open, resume/reset_resume or post_reset, never
\* by the handler.
C2_NoResubmitAfterDisarm ==
    [][ /\ KillReturns => Quiescent'
        /\ (Quiescent /\ ~Quiescent') => ArmStep ]_vars

\* C2 witness: close has returned after its cancellation raced with a running
\* handler, whose resubmission was refused with -EPERM; nothing is in flight.
C2_Witness ==
    /\ pc["input"] = "idle" /\ call["input"] = "close" /\ call["pm"] = "none"
    /\ Quiescent
    /\ irq_submits = 1 /\ irq_error = -EPERM

\* C3: when the usb_kill_urb of close, suspend or pre_reset returns, no
\* handler is pending or running, and as long as nothing is in flight no
\* event is forwarded to the sink.
C3_NoEventAfterDisarm ==
    [][ /\ KillReturns => (irq_pc' = "idle" /\ urb_inflight' = 0)
        /\ Quiescent => sink' = sink ]_vars

\* C3 witness: pre_reset has returned although a completion that forwarded a
\* report was in flight during the cancellation.
C3_Witness ==
    /\ pc["pm"] = "reset_held"
    /\ Quiescent
    /\ sink # <<>> /\ irq_error = -EPERM

\* C4: the submission step of open either is refused, and then open returns
\* -EIO, is_open is false and nothing is in flight, or is accepted, and then
\* open returns 0 with is_open true; is_open turns true in no other step.
C4_OpenSubmissionError ==
    [][ /\ (pc["input"] = "open_submit" /\ pc'["input"] # "open_submit") =>
             IF urb_inflight' = urb_inflight
             THEN retval'["input"] = -EIO /\ ~is_open' /\ Quiescent'
             ELSE retval'["input"] = 0 /\ is_open' /\ urb_inflight' = 1
        /\ (~is_open /\ is_open') =>
             (pc["input"] = "open_submit" /\ urb_inflight' = urb_inflight + 1)
      ]_vars

\* C4 witness: open has returned -EIO, the session is not open and idle.
C4_Witness ==
    /\ pc["input"] = "idle" /\ call["input"] = "open"
    /\ retval["input"] = -EIO
    /\ ~is_open /\ Quiescent /\ pm_mutex = "none"

\* C5: open releases pm_mutex before it returns on every path: the input
\* context never holds the mutex while it is outside open and close.
C5_OpenReleasesGuard == pc["input"] = "idle" => pm_mutex # "input"

\* C6: a completion with status 0 and 6 bytes forwards the axis and button
\* events and then the sync, without having submitted, and only then makes
\* one submission, which leaves a read in flight when it is accepted.
C6_SuccessDecodeThenResubmit ==
    [][ (urb_status = 0 /\ urb_actual_length = REPORT_LEN) =>
          /\ IrqLeaves("switch") =>
               /\ irq_pc' = "exit"
               /\ Len(sink') = 11
               /\ sink'[1] = <<"EV_ABS", "ABS_X", data[2] + 256 * data[3]>>
               /\ sink'[2] = <<"EV_ABS", "ABS_Y", data[4]>>
               /\ \A i \in 1..10 : sink'[i][1] \in {"EV_ABS", "EV_KEY"}
               /\ sink'[11][1] = "EV_SYN"
               /\ irq_submits' = 0
               /\ urb_inflight' = urb_inflight
          /\ IrqLeaves("exit") =>
               /\ irq_pc' = "idle"
               /\ sink' = sink
               /\ irq_submits' = 1
               /\ (irq_error' = 0) = (urb_inflight' = urb_inflight + 1)
               /\ irq_error' = 0 => urb_inflight' = 1
      ]_vars

\* C6 witness: the handler has returned after forwarding a report and the
\* accepted resubmission is in flight.
C6_Witness ==
    /\ irq_pc = "idle" /\ urb_status = 0 /\ urb_actual_length = REPORT_LEN
    /\ Len(sink) = 11
    /\ irq_submits = 1 /\ irq_error = 0 /\ urb_inflight = 1

\* C7: after a completion with -ETIME the handler returns without forwarding
\* an event and without submitting; nothing is in flight and nothing is
\* forwarded until open, resume/reset_resume or post_reset submits.
C7_TimeoutNoResubmit ==
    [][ (urb_status = -ETIME /\ urb_inflight = 0) =>
          /\ sink' = <<>>
          /\ irq_submits' = 0
          /\ urb_inflight' = 0 \/ ArmStep
          /\ IrqLeaves("switch") => irq_pc' = "idle"
      ]_vars

\* C7 witness: the session is open, its last completion timed out, the
\* handler has returned and no read is in flight.
C7_Witness ==
    /\ urb_status = -ETIME /\ Quiescent /\ is_open
    /\ pc["input"] = "idle" /\ pc["pm"] = "idle"

\* C8: after a completion with -ECONNRESET, -ENOENT, -ESHUTDOWN or -EPIPE
\* the handler returns without forwarding an event and without submitting;
\* no read is in flight unless a lifecycle call submits one.
C8_TerminalNoResubmit ==
    [][ (urb_status \in TerminalStatuses /\ urb_inflight = 0) =>
          /\ sink' = <<>>
          /\ irq_submits' = 0
          /\ urb_inflight' = 0 \/ ArmStep
          /\ IrqLeaves("switch") => irq_pc' = "idle"
      ]_vars

\* C8 witness: the session is open, its last completion reported a halted
\* endpoint, the handler has returned and no read is in flight.
C8_Witness ==
    /\ urb_status = -EPIPE /\ Quiescent /\ is_open
    /\ pc["input"] = "idle" /\ pc["pm"] = "idle"

\* C9: after a completion with any other nonzero status the handler forwards
\* no event, goes to the exit label and makes one submission before it
\* returns.
C9_TransientResubmits ==
    [][ (urb_status \notin ({0, -ETIME} \cup TerminalStatuses)) =>
          /\ IrqLeaves("switch") =>
               (irq_pc' = "exit" /\ sink' = <<>> /\ irq_submits' = 0)
          /\ IrqLeaves("exit") =>
               /\ irq_pc' = "idle"
               /\ sink' = <<>>
               /\ irq_submits' = 1
               /\ (irq_error' = 0) = (urb_inflight' = urb_inflight + 1)
      ]_vars

\* C9 witness: the handler has returned from a protocol error with nothing
\* forwarded and its resubmission in flight.
C9_Witness ==
    /\ irq_pc = "idle" /\ urb_status = -EPROTO
    /\ sink = <<>>
    /\ irq_submits = 1 /\ irq_error = 0 /\ urb_inflight = 1

\* C10: after a completion with status 0 and a length other than 6 the
\* handler forwards nothing at all and still makes one submission.
C10_WrongLengthSkipsDecode ==
    [][ (urb_status = 0 /\ urb_actual_length # REPORT_LEN) =>
          /\ IrqLeaves("switch") =>
               (irq_pc' = "exit" /\ sink' = <<>> /\ irq_submits' = 0)
          /\ IrqLeaves("exit") =>
               /\ irq_pc' = "idle"
               /\ sink' = <<>>
               /\ irq_submits' = 1
               /\ (irq_error' = 0) = (urb_inflight' = urb_inflight + 1)
      ]_vars

\* C10 witness: the handler has returned from a successful transfer of more
\* than 6 bytes with nothing forwarded and its resubmission in flight.
C10_Witness ==
    /\ irq_pc = "idle" /\ urb_status = 0 /\ urb_actual_length > REPORT_LEN
    /\ sink = <<>>
    /\ irq_submits = 1 /\ irq_error = 0 /\ urb_inflight = 1

\* the input context is inside the guarded section of open or close
InputInside ==
    pc["input"] \in {"open_alloc", "open_submit", "close_kill", "close_wait"}

\* the USB core context is inside the guarded section of suspend or resume,
\* or anywhere from the lock of pre_reset to the unlock of post_reset
PmInside ==
    pc["pm"] \in {"suspend_check", "suspend_wait", "resume_submit",
                  "pre_reset_kill", "pre_reset_wait", "reset_held"}

\* the step is context t leaving position p
Leaves(t, p) == pc[t] = p /\ pc'[t] # p

\* C11: the two contexts are never inside guarded sections at the same time,
\* a context inside a section holds pm_mutex, and is_open and urb->reject
\* change only in steps of a context that is inside its section.
C11_GuardOrdersLifecycle ==
    /\ [](/\ ~(InputInside /\ PmInside)
          /\ InputInside => pm_mutex = "input"
          /\ PmInside => pm_mutex = "pm")
    /\ [][ (is_open' # is_open \/ urb_reject' # urb_reject) =>
              \/ InputInside /\ pc'["input"] # pc["input"]
              \/ PmInside /\ pc'["pm"] # pc["pm"] ]_vars

\* C11 witness: close is inside its section, entered after suspend had run
\* its own section on the open session; the suspended context is outside.
C11_Witness ==
    /\ pc["input"] = "close_wait" /\ pm_mutex = "input"
    /\ pc["pm"] = "suspended" /\ is_open

\* C12: pre_reset leaves its cancellation with pm_mutex held, and as long as
\* post_reset has not run the mutex stays held by the USB core context, the
\* input context is outside open and close, and nothing is in flight.
C12_ResetHoldsGuard ==
    /\ [](pc["pm"] = "reset_held" =>
            /\ pm_mutex = "pm"
            /\ ~InputInside
            /\ Quiescent)
    /\ [][ Leaves("pm", "pre_reset_wait") =>
              (pc'["pm"] = "reset_held" /\ pm_mutex' = "pm" /\ retval'["pm"] = 0)
         ]_vars

\* C12 witness: pre_reset has returned on an open session whose read it
\* cancelled.
C12_Witness ==
    /\ pc["pm"] = "reset_held" /\ call["pm"] = "pre_reset"
    /\ is_open /\ users = 1 /\ urb_status = -ENOENT

\* C13: suspend starts a cancellation exactly when is_open is true, never
\* changes is_open, and returns 0 with pm_mutex released and nothing in
\* flight.
C13_Suspend ==
    [][ /\ Leaves("pm", "suspend_check") =>
             /\ is_open = (urb_reject' = urb_reject + 1)
             /\ is_open = (pc'["pm"] = "suspend_wait")
             /\ ~is_open => UNCHANGED urb_vars
        /\ pc["pm"] \in {"suspend_check", "suspend_wait"} => is_open' = is_open
        /\ (pc["pm"] \in {"suspend_check", "suspend_wait"}
              /\ pc'["pm"] = "suspended") =>
             /\ retval'["pm"] = 0
             /\ pm_mutex' = "none"
             /\ Quiescent'
             /\ urb_reject' = 0
      ]_vars

\* C13 witness: suspend has returned 0 on an open session whose read it
\* cancelled; the session is still marked open.
C13_Witness ==
    /\ pc["pm"] = "suspended" /\ retval["pm"] = 0
    /\ is_open /\ Quiescent /\ pm_mutex = "none"
    /\ urb_status = -ENOENT

\* C14: resume and reset_resume alike: with is_open true the step either
\* puts a read in flight and returns 0 or is refused and returns -EIO; with
\* is_open false it returns 0 and leaves the urb alone; pm_mutex is released
\* either way.
C14_Resume ==
    [][ Leaves("pm", "resume_submit") =>
          /\ call["pm"] \in {"resume", "reset_resume"}
          /\ pc'["pm"] = "idle"
          /\ pm_mutex' = "none"
          /\ IF is_open
             THEN /\ retval'["pm"] \in {0, -EIO}
                  /\ (retval'["pm"] = 0) = (urb_inflight' = urb_inflight + 1)
                  /\ (retval'["pm"] = -EIO) = (urb_inflight' = urb_inflight)
             ELSE /\ retval'["pm"] = 0
                  /\ UNCHANGED urb_vars
      ]_vars

\* C14 witness: reset_resume has returned -EIO on an open session and the
\* mutex is free.
C14_Witness ==
    /\ pc["pm"] = "idle" /\ call["pm"] = "reset_resume"
    /\ retval["pm"] = -EIO
    /\ is_open /\ pm_mutex = "none"

\* C15: when close returns is_open is false, nothing is in flight, no
\* cancellation is pending and pm_mutex is free; the steps of a close that
\* runs on a session that is not open and has nothing in flight leave
\* is_open, the urb and the handler's state as they are.
C15_CloseIdempotent ==
    [][ /\ Leaves("input", "close_wait") =>
             /\ pc'["input"] = "idle"
             /\ ~is_open'
             /\ Quiescent'
             /\ urb_reject' = 0
             /\ pm_mutex' = "none"
        /\ (pc["input"] \in {"close_kill", "close_wait"}
              /\ ~is_open /\ Quiescent) =>
             /\ is_open' = is_open
             /\ UNCHANGED <<urb_inflight, urb_unlinked>>
             /\ UNCHANGED irq_vars
      ]_vars

\* C15 witness: close is waiting in its cancellation on a session that was
\* already closed.
C15_Witness ==
    /\ pc["input"] = "close_wait"
    /\ ~is_open /\ users = 0 /\ Quiescent
    /\ retval["input"] = 0

\* C16: close returns to the state probe left (is_open false, nothing in
\* flight, no cancellation pending, pm_mutex free); whenever open reaches its
\* submission the session is in that state, so a submission the transport
\* accepts is accepted, and it leaves is_open true and one read in flight.
C16_OpenCloseCycle ==
    /\ [](pc["input"] = "open_submit" =>
            /\ ~is_open
            /\ Quiescent
            /\ urb_reject = 0
            /\ ~urb_unlinked
            /\ usb_submit_urb(0) = 0)
    /\ [][ /\ Leaves("input", "close_wait") =>
                /\ is_open' = FALSE
                /\ <<urb_inflight', urb_unlinked', urb_reject'>> = <<0, FALSE, 0>>
                /\ irq_pc' = "idle"
                /\ pm_mutex' = "none"
           /\ (Leaves("input", "open_submit") /\ retval'["input"] = 0) =>
                (is_open' /\ urb_inflight' = 1 /\ pm_mutex' = "none")
         ]_vars

\* C16 witness: open has succeeded again after a close that cancelled the
\* read of an earlier open; one read is in flight.
C16_Witness ==
    /\ pc["input"] = "idle" /\ call["input"] = "open" /\ call["pm"] = "none"
    /\ retval["input"] = 0
    /\ is_open /\ urb_inflight = 1 /\ irq_pc = "idle"
    /\ urb_status = -ENOENT

\* C17: the only early return of open is the failed allocation: whatever the
\* control message returns, open goes on to the submission, and its return
\* value and is_open follow the submission alone.
C17_ControlFailureNotFatal ==
    [][ /\ (Leaves("input", "open_alloc") /\ retval'["input"] # -ENOMEM) =>
             (pc'["input"] = "open_submit" /\ pm_mutex' = "input")
        /\ Leaves("input", "open_submit") =>
             /\ ctrl_retval' = ctrl_retval
             /\ (retval'["input"] = 0) = (urb_inflight' = urb_inflight + 1)
             /\ is_open' = (retval'["input"] = 0)
             /\ retval'["input"] = 0 => urb_inflight' = 1
      ]_vars

\* C17 witness: open has returned 0 with is_open true and one read in flight
\* although its control message failed.
C17_Witness ==
    /\ pc["input"] = "idle" /\ call["input"] = "open"
    /\ ctrl_retval = -EPIPE
    /\ retval["input"] = 0 /\ is_open /\ urb_inflight = 1


(* ---------------------------------------------------------------------- *)
(* C18 .. C20: report decoding                                            *)
(* ---------------------------------------------------------------------- *)

\* C18: in the current driver every decoded 6-byte report carries the six
\* buttons active-low: a button is reported pressed exactly when its bit of
\* the report is 0 (trigger byte 1 bit 5, A byte 0 bit 3, B byte 0 bit 2,
\* C byte 0 bit 1, start byte 1 bit 7, select byte 1 bit 6), and the trigger
\* is reported as BTN_LEFT.
C18_ActiveLowButtons ==
    (variant = "guncon2" /\ irq_pc = "exit") =>
        /\ Len(sink) = 11
        /\ sink[5] = <<"EV_KEY", "BTN_LEFT",
                       IF (data[1] \div 32) % 2 = 0 THEN 1 ELSE 0>>
        /\ sink[6] = <<"EV_KEY", "BTN_A",
                       IF (data[0] \div 8) % 2 = 0 THEN 1 ELSE 0>>
        /\ sink[7] = <<"EV_KEY", "BTN_B",
                       IF (data[0] \div 4) % 2 = 0 THEN 1 ELSE 0>>
        /\ sink[8] = <<"EV_KEY", "BTN_RIGHT",
                       IF (data[0] \div 2) % 2 = 0 THEN 1 ELSE 0>>
        /\ sink[9] = <<"EV_KEY", "BTN_START",
                       IF (data[1] \div 128) % 2 = 0 THEN 1 ELSE 0>>
        /\ sink[10] = <<"EV_KEY", "BTN_SELECT",
                        IF (data[1] \div 64) % 2 = 0 THEN 1 ELSE 0>>

\* a decoded report with the trigger and start bits clear and the A and
\* select bits set: trigger and start are reported pressed, A and select
\* released
C18_Witness ==
    /\ variant = "guncon2"
    /\ irq_pc = "exit"
    /\ (data[1] \div 32) % 2 = 0
    /\ (data[1] \div 128) % 2 = 0
    /\ (data[1] \div 64) % 2 = 1
    /\ (data[0] \div 8) % 2 = 1
    /\ sink[5] = <<"EV_KEY", "BTN_LEFT", 1>>
    /\ sink[9] = <<"EV_KEY", "BTN_START", 1>>
    /\ sink[6] = <<"EV_KEY", "BTN_A", 0>>
    /\ sink[10] = <<"EV_KEY", "BTN_SELECT", 0>>

\* C19: for every combination of the four active-low direction bits of
\* byte 0 (left bit 7, right bit 5, up bit 4, down bit 6) both hat values
\* are in {-1, 0, 1}: 0 when both or neither of the opposing directions are
\* pressed, -1 when only left (up) is pressed, +1 when only right (down) is.
C19_DpadDecode ==
    (variant = "guncon2" /\ irq_pc = "exit") =>
        LET left  == (data[0] \div 128) % 2 = 0
            right == (data[0] \div 32) % 2 = 0
            up    == (data[0] \div 16) % 2 = 0
            down  == (data[0] \div 64) % 2 = 0
        IN  /\ sink[3][1] = "EV_ABS" /\ sink[3][2] = "ABS_HAT0X"
            /\ sink[4][1] = "EV_ABS" /\ sink[4][2] = "ABS_HAT0Y"
            /\ sink[3][3] \in {-1, 0, 1}
            /\ sink[4][3] \in {-1, 0, 1}
            /\ (left <=> right) => sink[3][3] = 0
            /\ (left /\ ~right) => sink[3][3] = -1
            /\ (right /\ ~left) => sink[3][3] = 1
            /\ (up <=> down) => sink[4][3] = 0
            /\ (up /\ ~down) => sink[4][3] = -1
            /\ (down /\ ~up) => sink[4][3] = 1

\* left and right pressed together with only up: the horizontal hat is 0 and
\* the vertical hat is -1
C19_Witness ==
    /\ variant = "guncon2"
    /\ irq_pc = "exit"
    /\ (data[0] \div 128) % 2 = 0
    /\ (data[0] \div 32) % 2 = 0
    /\ (data[0] \div 16) % 2 = 0
    /\ (data[0] \div 64) % 2 = 1
    /\ sink[3] = <<"EV_ABS", "ABS_HAT0X", 0>>
    /\ sink[4] = <<"EV_ABS", "ABS_HAT0Y", -1>>

\* C20: the current driver reports ABS_X = byte 2 + 256 * byte 3 and
\* ABS_Y = byte 4 of every decoded report unchanged; the two-device build
\* with raw set reports the same unchanged values on the mouse device for
\* every sample inside the calibration bounds, whatever those bounds are.
C20_RawPassthrough ==
    /\ (variant = "guncon2" /\ irq_pc = "exit") =>
            /\ sink[1] = <<"EV_ABS", "ABS_X", data[2] + 256 * data[3]>>
            /\ sink[2] = <<"EV_ABS", "ABS_Y", data[4]>>
            /\ sink[1][3] \in 0..65535
            /\ sink[2][3] \in 0..255
    /\ ( /\ variant = "two-device"
         /\ irq_pc \in {"exit", "fault"}
         /\ module_param.raw
         /\ data[2] + 256 * data[3] >= module_param.calibration_x0
         /\ data[2] + 256 * data[3] <= module_param.calibration_x1
         /\ data[4] >= module_param.calibration_y0
         /\ data[4] <= module_param.calibration_y1 ) =>
            LET k == IF module_param.offscreen_reload THEN 2 ELSE 1 IN
            /\ irq_pc = "exit"
            /\ sink[k + 1] = <<"mouse", "EV_ABS", "ABS_X",
                               data[2] + 256 * data[3]>>
            /\ sink[k + 2] = <<"mouse", "EV_ABS", "ABS_Y", data[4]>>

\* the two-device build in raw mode with equal horizontal bounds 80 and the
\* sample (80, 120) inside them: the sample is reported unchanged
C20_Witness ==
    /\ variant = "two-device"
    /\ irq_pc = "exit"
    /\ module_param.raw
    /\ ~module_param.offscreen_reload
    /\ module_param.calibration_x0 = 80
    /\ module_param.calibration_x1 = 80
    /\ data[2] = 80 /\ data[3] = 0 /\ data[4] = 120
    /\ sink[2] = <<"mouse", "EV_ABS", "ABS_X", 80>>
    /\ sink[3] = <<"mouse", "EV_ABS", "ABS_Y", 120>>


(* ---------------------------------------------------------------------- *)
(* C21 .. C26: calibration in the two-device build                        *)
(* ---------------------------------------------------------------------- *)

\* the sample of the report in the buffer and the calibration bounds
RawX == data[2] + 256 * data[3]
RawY == data[4]
XMin == module_param.calibration_x0
XMax == module_param.calibration_x1
YMin == module_param.calibration_y0
YMax == module_param.calibration_y1

\* the handler of a calibrating build has evaluated the off-screen test
Tested ==
    /\ variant \in {"two-device", "mouse-only"}
    /\ irq_pc \in {"position", "param_unlock", "exit", "fault"}

\* the handler of the two-device build has decoded the whole report
Decoded == variant = "two-device" /\ irq_pc = "exit"

\* index in sink of the event before the position events
KeyCount == IF module_param.offscreen_reload THEN 2 ELSE 1

\* the sink holds an event of this device, type and code
Forwarded(dev, type, code) ==
    \E i \in 1..Len(sink) :
        sink[i][1] = dev /\ sink[i][2] = type /\ sink[i][3] = code

\* C21: a sample is off-screen exactly when raw_x < x_min or raw_x > x_max
\* or raw_y < y_min or raw_y > y_max; a sample on a bound is on-screen and
\* a sample one unit beyond a bound is off-screen.  The two-device build
\* reports the position exactly for the on-screen samples, the mouse-only
\* build reports the origin for the off-screen ones.
C21_OffscreenInclusive ==
    Tested =>
        /\ offscreen <=> (RawX < XMin \/ RawX > XMax \/ RawY < YMin \/ RawY > YMax)
        /\ ( /\ RawX \in {XMin, XMax} /\ XMin <= XMax
             /\ RawY \in {YMin, YMax} /\ YMin <= YMax ) => ~offscreen
        /\ ( \/ RawX = XMin - 1 \/ RawX = XMax + 1
             \/ RawY = YMin - 1 \/ RawY = YMax + 1 ) => offscreen
        /\ Decoded =>
              (Forwarded("mouse", "EV_ABS", "ABS_X") <=> ~offscreen)
        /\ (variant = "mouse-only" /\ irq_pc = "exit" /\ offscreen) =>
              /\ sink[2] = <<"mouse", "EV_ABS", "ABS_X", 0>>
              /\ sink[3] = <<"mouse", "EV_ABS", "ABS_Y", 0>>

\* the sample (734, 240) on the upper bounds (734, 240) is on-screen and
\* its position is reported
C21_Witness ==
    /\ Decoded
    /\ RawX = 734 /\ XMax = 734 /\ XMin = 80
    /\ RawY = 240 /\ YMax = 240 /\ YMin = 20
    /\ ~offscreen
    /\ Forwarded("mouse", "EV_ABS", "ABS_X")

\* C22: with raw off, for every on-screen sample and bounds with max > min
\* the reported ABS_X is (raw_x - x_min) * 1024 / (x_max - x_min) and ABS_Y
\* is (raw_y - y_min) * 255 / (y_max - y_min), the product being computed
\* without overflow or truncation.
C22_RescaleExact ==
    ( /\ Decoded
      /\ ~module_param.raw
      /\ ~offscreen
      /\ XMax > XMin
      /\ YMax > YMin ) =>
        /\ sink[KeyCount + 1] =
              <<"mouse", "EV_ABS", "ABS_X",
                ((RawX - XMin) * 1024) \div (XMax - XMin)>>
        /\ sink[KeyCount + 2] =
              <<"mouse", "EV_ABS", "ABS_Y",
                ((RawY - YMin) * 255) \div (YMax - YMin)>>

\* C23: for fixed bounds with max > min the rescaled value is monotonic:
\* the value reported for an on-screen sample is not larger than the value
\* the same rescaling gives to any larger on-screen sample.
C23_RescaleMonotonic ==
    ( /\ Decoded
      /\ ~module_param.raw
      /\ ~offscreen
      /\ XMax > XMin
      /\ YMax > YMin ) =>
        /\ \A x2 \in XSamples :
              (RawX < x2 /\ x2 <= XMax) =>
                  sink[KeyCount + 1][4] <= irq_rescale(x2, XMin, XMax, X_AXIS_MAX)
        /\ \A y2 \in YSamples :
              (RawY < y2 /\ y2 <= YMax) =>
                  sink[KeyCount + 2][4] <= irq_rescale(y2, YMin, YMax, Y_AXIS_MAX)

\* C24: no report makes the handler divide by zero; with x_max = x_min (or
\* y_max = y_min) an on-screen sample is passed through for that axis.
C24_DegenerateNoFault ==
    /\ irq_pc # "fault"
    /\ (Decoded /\ ~offscreen /\ XMax = XMin) =>
            sink[KeyCount + 1] = <<"mouse", "EV_ABS", "ABS_X", RawX>>
    /\ (Decoded /\ ~offscreen /\ YMax = YMin) =>
            sink[KeyCount + 2] = <<"mouse", "EV_ABS", "ABS_Y", RawY>>

\* C25: an off-screen report forwards no ABS_X and no ABS_Y, so the input
\* core keeps the last position, and still forwards the trigger key, the
\* d-pad, the buttons and both syncs.
C25_OffscreenKeepsPosition ==
    ( /\ Decoded
      /\ (RawX < XMin \/ RawX > XMax \/ RawY < YMin \/ RawY > YMax) ) =>
        /\ \A i \in 1..Len(sink) :
              ~(sink[i][1] = "mouse" /\ sink[i][2] = "EV_ABS")
        /\ Forwarded("mouse", "EV_KEY", "BTN_LEFT")
        /\ Forwarded("js", "EV_ABS", "ABS_HAT0X")
        /\ Forwarded("js", "EV_ABS", "ABS_HAT0Y")
        /\ \A b \in {"BTN_A", "BTN_B", "BTN_C", "BTN_START", "BTN_SELECT"} :
              Forwarded("js", "EV_KEY", b)
        /\ Forwarded("js", "EV_SYN", "SYN_REPORT")
        /\ Forwarded("mouse", "EV_SYN", "SYN_REPORT")

\* the sample (79, 120) with the bounds (80, 734, 0, 240), rescaling build:
\* keys, d-pad and syncs only
C25_Witness ==
    /\ Decoded
    /\ ~module_param.raw
    /\ RawX = 79 /\ RawY = 120
    /\ XMin = 80 /\ XMax = 734 /\ YMin = 0 /\ YMax = 240
    /\ Len(sink) = KeyCount + 9
    /\ Forwarded("js", "EV_ABS", "ABS_HAT0X")
    /\ ~Forwarded("mouse", "EV_ABS", "ABS_X")

\* C26: with offscreen_reload set an on-screen report gives trigger =
\* physical trigger and reload released, an off-screen report gives trigger
\* released and reload = physical trigger, never both pressed; with
\* offscreen_reload clear the trigger is the physical trigger wherever the
\* gun points and no reload event is forwarded.
C26_TriggerReload ==
    (Tested /\ variant = "two-device") =>
        LET trigger == IF (data[1] \div 32) % 2 = 0 THEN 1 ELSE 0
            off == RawX < XMin \/ RawX > XMax \/ RawY < YMin \/ RawY > YMax
        IN  IF module_param.offscreen_reload
            THEN /\ sink[1] = <<"mouse", "EV_KEY", "BTN_LEFT",
                                IF off THEN 0 ELSE trigger>>
                 /\ sink[2] = <<"mouse", "EV_KEY", "BTN_RIGHT",
                                IF off THEN trigger ELSE 0>>
                 /\ ~(sink[1][4] = 1 /\ sink[2][4] = 1)
            ELSE /\ sink[1] = <<"mouse", "EV_KEY", "BTN_LEFT", trigger>>
                 /\ ~Forwarded("mouse", "EV_KEY", "BTN_RIGHT")

\* offscreen_reload set, the gun off screen and the trigger pulled: the
\* trigger is reported released and reload pressed
C26_Witness ==
    /\ Decoded
    /\ module_param.offscreen_reload
    /\ offscreen
    /\ (data[1] \div 32) % 2 = 0
    /\ sink[1] = <<"mouse", "EV_KEY", "BTN_LEFT", 0>>
    /\ sink[2] = <<"mouse", "EV_KEY", "BTN_RIGHT", 1>>


(* ---------------------------------------------------------------------- *)
(* C27, C28: the handler and the lifecycle                                *)
(* ---------------------------------------------------------------------- *)

\* the handler has passed the decode of a successful transfer of 6 bytes
DecodedReport ==
    /\ irq_pc = "exit"
    /\ urb_status = 0
    /\ urb_actual_length = REPORT_LEN

\* C27: the events forwarded for a report are a function of its 6 bytes
\* alone, whatever was decoded before and whatever the lifecycle calls are
\* doing, and the handler changes neither is_open nor pm_mutex.
C27_DecodePure ==
    /\ [](DecodedReport => sink = guncon2_report(data))
    /\ [][irq_pc # irq_pc' => (is_open' = is_open /\ pm_mutex' = pm_mutex)]_vars

\* a report decoded while suspend holds pm_mutex and waits in usb_kill_urb
C27_Witness ==
    /\ DecodedReport
    /\ pc["pm"] = "suspend_wait"
    /\ pm_mutex = "pm"
    /\ is_open
    /\ sink = guncon2_report(data)
    /\ Len(sink) = 11

\* C28: while usb_kill_urb is in progress (urb->reject raised, the call not
\* yet returned) a handler that still runs forwards no event and queues no
\* new read, whatever the status of the completion.
C28_NoopWhileCancelling ==
    [][urb_reject > 0 =>
          (Len(sink') <= Len(sink) /\ urb_inflight' <= urb_inflight)]_vars


(* ---------------------------------------------------------------------- *)
(* C29, C30: the handler and the module parameters                        *)
(* ---------------------------------------------------------------------- *)

\* C29: the completion handler never acquires a blocking lock: it never
\* holds the parameter mutex and never waits for it while a writer of the
\* parameters holds it.
C29_NoBlockingLock ==
    /\ param_lock # "irq"
    /\ ~(irq_pc = "param_lock" /\ param_lock = "writer")

\* the handler's local offscreen is the test on the current parameters
SnapshotConsistent ==
    offscreen <=> (RawX < XMin \/ RawX > XMax \/ RawY < YMin \/ RawY > YMax)

\* C30: one decode uses one snapshot of the parameters: from the off-screen
\* test to the end of the position update no write takes effect, so the
\* bounds and flags read by the position update are those of the test.
C30_ConsistentSnapshot ==
    /\ [][(irq_pc \in {"position", "param_unlock"}) =>
              (module_param' = module_param)]_vars
    /\ [](irq_pc \in {"position", "param_unlock"} => SnapshotConsistent)

\* the handler is between the off-screen test and the position update while
\* a writer waits for the parameter mutex
C30_Witness ==
    /\ variant = "two-device"
    /\ irq_pc = "position"
    /\ param_lock = "irq"
    /\ param_pc = "lock"
    /\ SnapshotConsistent


(* ---------------------------------------------------------------------- *)
(* C31 .. C37                                                             *)
(* ---------------------------------------------------------------------- *)

\* C31: post_reset submits a read exactly when is_open is set, returns -EIO
\* exactly when that submission is rejected and 0 otherwise, and releases
\* pm_mutex, taken by pre_reset, on every path.
C31_PostReset ==
    [][ Leaves("pm", "reset_held") =>
          /\ pm_mutex = "pm"
          /\ pm_mutex' = "none"
          /\ pc'["pm"] = "idle"
          /\ is_open' = is_open
          /\ ~is_open => (urb_inflight' = urb_inflight /\ retval'["pm"] = 0)
          /\ is_open =>
                \/ urb_inflight' = urb_inflight + 1 /\ retval'["pm"] = 0
                \/ urb_inflight' = urb_inflight /\ retval'["pm"] = -EIO
      ]_vars

\* post_reset has returned -EIO for an open session and pm_mutex is free
C31_Witness ==
    /\ call["pm"] = "post_reset"
    /\ pc["pm"] = "idle"
    /\ retval["pm"] = -EIO
    /\ is_open
    /\ pm_mutex = "none"
    /\ urb_inflight = 0

\* the handler has returned after a rejected resubmission and no read is
\* in flight
ResubmitRejected ==
    /\ irq_pc = "idle"
    /\ irq_submits = 1
    /\ irq_error # 0
    /\ urb_inflight = 0

\* C32: the handler submits once at the exit label and returns; a rejected
\* resubmission is logged once, and not at all when it is -EPERM; after it
\* nothing is submitted, logged or forwarded and no read is in flight until
\* open, resume/reset_resume or post_reset submits.
C32_RejectedResubmission ==
    [][ /\ IrqLeaves("exit") =>
             /\ irq_pc' = "idle"
             /\ irq_submits' = 1
             /\ irq_logged' = IF irq_error' \in {0, -EPERM} THEN 0 ELSE 1
             /\ irq_error' # 0 => urb_inflight' = urb_inflight
        /\ ResubmitRejected =>
             /\ urb_inflight' = 0 \/ ArmStep
             /\ urb_inflight' = 0 =>
                   (irq_pc' = "idle" /\ irq_submits' = 1 /\ sink' = sink
                    /\ irq_logged' = irq_logged)
      ]_vars

\* an open session whose resubmission the transport rejected: logged once,
\* nothing in flight
C32_Witness ==
    /\ ResubmitRejected
    /\ irq_error = -ENODEV
    /\ irq_logged = 1
    /\ is_open
    /\ pc["input"] = "idle" /\ pc["pm"] = "idle"

\* C33: polling does not stall: every completion with status 0 is eventually
\* followed by a read in flight, unless the resubmission of that handler is
\* rejected (by the transport, or with -EPERM because close, suspend or
\* pre_reset is killing the urb).
C33_PollingNeverStalls ==
    (irq_pc = "switch" /\ urb_status = 0)
        ~> (urb_inflight = 1 \/ (irq_pc = "idle" /\ irq_error # 0))

\* an open session with no lifecycle call under way: the handler has
\* returned from a successful completion and the next read is in flight
C33_Witness ==
    /\ is_open
    /\ pm_mutex = "none"
    /\ pc["input"] = "idle" /\ pc["pm"] = "idle"
    /\ urb_status = 0
    /\ irq_pc = "idle"
    /\ irq_submits = 1
    /\ irq_error = 0
    /\ urb_inflight = 1
    /\ urb_reject = 0

\* C34: in the mouse-only build, for bounds with x1 > x0 and y1 > y0 and
\* every on-screen sample, the reported ABS_X and ABS_Y are in 0..65535.
C34_MouseRange ==
    ( /\ variant = "mouse-only"
      /\ irq_pc = "exit"
      /\ RawX >= XMin /\ RawX <= XMax /\ RawY >= YMin /\ RawY <= YMax
      /\ XMax > XMin
      /\ YMax > YMin ) =>
        /\ sink[2][3] = "ABS_X" /\ sink[2][4] \in 0..65535
        /\ sink[3][3] = "ABS_Y" /\ sink[3][4] \in 0..65535

\* C35: whenever pm_mutex is free and is_open is false, no read is in
\* flight and no handler is pending or running.
C35_ClosedNeverPolls ==
    (pm_mutex = "none" /\ ~is_open) => Quiescent

\* a session closed again after a read was in flight: the unlinked read has
\* completed and nothing is in flight
C35_Witness ==
    /\ pm_mutex = "none"
    /\ ~is_open
    /\ call["input"] = "close"
    /\ pc["input"] = "idle"
    /\ urb_status = -ENOENT
    /\ Quiescent

\* C36: in the two-device build with raw clear, for bounds with x1 > x0 and
\* y1 > y0 and every on-screen sample, the values reported after the 16-bit
\* truncation of the product are in the advertised ranges: ABS_X in
\* 0..1024 and ABS_Y in 0..255.
C36_TwoDeviceRange ==
    ( /\ Decoded
      /\ ~module_param.raw
      /\ RawX >= XMin /\ RawX <= XMax /\ RawY >= YMin /\ RawY <= YMax
      /\ XMax > XMin
      /\ YMax > YMin ) =>
        /\ sink[KeyCount + 1][3] = "ABS_X"
        /\ sink[KeyCount + 1][4] \in 0..X_AXIS_MAX
        /\ sink[KeyCount + 2][3] = "ABS_Y"
        /\ sink[KeyCount + 2][4] \in 0..Y_AXIS_MAX

\* the narrowest bounds (80, 81) and (20, 21) with the sample on the upper
\* bounds: both axes are reported at the top of their ranges
C36_Witness ==
    /\ Decoded
    /\ ~module_param.raw
    /\ XMin = 80 /\ XMax = 81 /\ RawX = 81
    /\ YMin = 20 /\ YMax = 21 /\ RawY = 21
    /\ sink[KeyCount + 1][4] = 1024
    /\ sink[KeyCount + 2][4] = 255

\* C37: is_open is set only by open, in the step of an accepted submission,
\* and cleared only by close; no step of suspend, resume, reset_resume,
\* pre_reset, post_reset or of the handler changes it.
C37_IsOpenFrame ==
    [][ /\ (is_open' /\ ~is_open) =>
              /\ pc["input"] = "open_submit"
              /\ urb_inflight' = urb_inflight + 1
              /\ retval'["input"] = 0
        /\ (is_open /\ ~is_open') =>
              /\ pc["input"] = "close_wait"
              /\ call["input"] = "close"
        /\ (pc'["pm"] # pc["pm"] \/ irq_pc' # irq_pc) => is_open' = is_open
      ]_vars

\* resume has failed with -EIO: the session is still marked open and no
\* read is in flight
C37_Witness ==
    /\ call["pm"] \in {"resume", "reset_resume"}
    /\ pc["pm"] = "idle"
    /\ retval["pm"] = -EIO
    /\ is_open
    /\ Quiescent

====
